---- MODULE Spec2Model ----
(***************************************************************************)
(* Monthly sign-in sheet generator (generar_planilla_word.py) and the      *)
(* form's time-pair validator (gui_planilla.py).                           *)
(*                                                                         *)
(* Texts that the parsers take apart are sequences of one-character        *)
(* strings; texts that are only copied into cells are plain strings.       *)
(* Accented capitals of the source are written without the accent          *)
(* (MANANA, SABADO).                                                        *)
(***************************************************************************)
EXTENDS Integers, Sequences, FiniteSets, TLC

VARIABLES
    pc,             \* position in generar_planilla_word / build_table
    mes, anio,      \* month and year arguments
    hora_maniana,   \* morning time pair (a tuple of texts)
    hora_tarde,     \* afternoon time pair
    extras_dow,     \* weekday indices with an afternoon shift
    notas_por_dia,  \* day number -> note text
    feriados,       \* set of dates <<y, m, d>>
    header,         \* TRUE once add_header has built the identification block
    table,          \* table[r][c]: text of the cell in row r, column c
    shade,          \* shade[r][c]: fill colour of the cell ("" if none)
    d,              \* loop variable of build_table's day loop
    file,           \* what is stored at out_path
    ppc,            \* position in the parser being run
    text,           \* the parser's input text
    parts,          \* the tokens text.split(",") produced
    idx,            \* index of the next token to handle
    out,            \* the parser's result so far
    ui,             \* the form's fields when the generate button is clicked
    gpc,            \* position in PlanillaApp.generate
    dialogs,        \* the message boxes generate has shown, in order
    calls           \* the parsers and the generator generate has invoked, in order

tblVars == <<pc, mes, anio, hora_maniana, hora_tarde, extras_dow,
             notas_por_dia, feriados, header, table, shade, d, file>>
parseVars == <<ppc, text, parts, idx, out>>
guiVars == <<ui, gpc, dialogs, calls>>
vars == <<pc, mes, anio, hora_maniana, hora_tarde, extras_dow,
          notas_por_dia, feriados, header, table, shade, d, file,
          ppc, text, parts, idx, out,
          ui, gpc, dialogs, calls>>

(***************************************************************************)
(* Bounds of the model                                                     *)
(***************************************************************************)
\* holidays and notes are placed on days 1..MaxMarkDay of the month
MaxMarkDay == 2
\* a parser input holds at most MaxToks comma-separated tokens
MaxToks == 3

(***************************************************************************)
(* Calendar (the standard library's calendar and datetime.date)            *)
(***************************************************************************)
isleap(y) == (y % 4 = 0) /\ ((y % 100 # 0) \/ (y % 400 = 0))

mdays(y, m) ==
    IF m = 2 THEN (IF isleap(y) THEN 29 ELSE 28)
    ELSE IF m \in {4, 6, 9, 11} THEN 30 ELSE 31

\* days of the year before the first day of month m
DaysBeforeMonth(y, m) ==
    LET before == <<0, 31, 59, 90, 120, 151, 181, 212, 243, 273, 304, 334>>
    IN  before[m] + (IF m > 2 /\ isleap(y) THEN 1 ELSE 0)

\* proleptic Gregorian ordinal of a valid date, 0001-01-01 being day 1
toordinal(y, m, dd) ==
    LET y1 == y - 1
    IN  y1 * 365 + (y1 \div 4) - (y1 \div 100) + (y1 \div 400)
          + DaysBeforeMonth(y, m) + dd

\* datetime.date(y, m, d) accepts exactly these triples, and raises
\* ValueError for every other
ValidDate(y, m, dd) ==
    /\ 1 <= y /\ y <= 9999
    /\ 1 <= m /\ m <= 12
    /\ 1 <= dd /\ dd <= mdays(y, m)

\* calendar.weekday maps a year outside 1..9999 into 2000..2399 before it
\* asks the date for its weekday (0 = Monday .. 6 = Sunday)
CalYear(y) == IF 1 <= y /\ y <= 9999 THEN y ELSE 2000 + (y % 400)

weekday(y, m, dd) == (toordinal(CalYear(y), m, dd) + 6) % 7

\* calendar.monthrange(anio, mes) raises IllegalMonthError
MonthrangeRaises(y, m) == ~(1 <= m /\ m <= 12)

\* a length of month that forgets leap years
ndays_NoLeap(y, m) == IF m = 2 THEN 28 ELSE mdays(y, m)

\* calendar.monthrange(anio, mes)[1]
ndays(y, m) == mdays(y, m)

(***************************************************************************)
(* Inputs of a run                                                         *)
(***************************************************************************)
\* --mes and --anio are any integers on the command line: 0 and 13 are no
\* months, 10000 is no year of a date
Months == 0..13
Years == {2024, 2025, 10000}

\* tuple(args.hora_m.split(",")) has one element when the text has no comma
TimePairs ==
    { <<(<<"6:30", "13:00">>), (<<"16:00", "19:00">>)>>,
      <<(<<"6:30">>),          (<<"16:00", "19:00">>)>>,
      <<(<<"6:30", "13:00">>), (<<"16:00">>)>> }

\* the default --extras_dow "1,3": Tuesday and Thursday
ExtrasChoices == { {1, 3} }

\* parse_notes yields the empty text for a token such as "16:"
NoteTexts == {"", "LICENCIA"}

MarkDays == 1..MaxMarkDay

NoteMaps == UNION { [S -> NoteTexts] : S \in SUBSET MarkDays }

\* the dates of the month that can be holidays (a date is a valid triple)
MarkDates(y, m) == { <<y, m, dd>> : dd \in {x \in MarkDays : ValidDate(y, m, x)} }

(***************************************************************************)
(* Table primitives of the document library                                *)
(***************************************************************************)
cols == 9

Cols == 0..(cols - 1)

\* doc.add_table(rows, cols): every cell empty and unshaded
add_table(rows) == [r \in 0..(rows - 1) |-> [c \in Cols |-> ""]]

\* table.cell(r, c).text = txt
SetText(t, r, c, txt) == [t EXCEPT ![r][c] = txt]

\* for c in range(0, 9): set_cell_shading(table.cell(r, c), fill)
ShadeRow(s, r, fill) == [s EXCEPT ![r] = [c \in Cols |-> fill]]

labels == <<"DIAS", "ENTRADA", "FIRMA", "SALIDA", "FIRMA",
            "ENTRADA", "FIRMA", "SALIDA", "FIRMA">>

\* header row 0: cells 1..4 merged under MANANA, cells 5..8 under TARDE
hdr0 == [c \in Cols |-> IF c = 0 THEN "" ELSE IF c <= 4 THEN "MANANA" ELSE "TARDE"]

\* header row 1: the column labels
hdr1 == [c \in Cols |-> labels[c + 1]]

\* build_table.fill_dashes: for c in range(1, 9)
fill_dashes(t, r) ==
    [t EXCEPT ![r] = [c \in Cols |->
        IF c \in 1..8
        THEN (IF c \in {2, 4, 6, 8} THEN "" ELSE "---")
        ELSE t[r][c]]]

\* the weekend branch's own loop: for c in range(2, 9)
WeekendDashes(t, r) ==
    [t EXCEPT ![r] = [c \in Cols |->
        IF c \in 2..8
        THEN (IF c \in {2, 4, 6, 8} THEN "" ELSE "---")
        ELSE t[r][c]]]

\* notas_por_dia.get(d)
special_note_present(dd) == dd \in DOMAIN notas_por_dia
special_note(dd) == IF dd \in DOMAIN notas_por_dia THEN notas_por_dia[dd] ELSE "None"

\* the truth value Python gives "if special_note:"
Truthy(dd) == special_note_present(dd) /\ notas_por_dia[dd] # ""

dow(dd) == weekday(anio, mes, dd)
is_weekend(dd) == dow(dd) >= 5

\* str(d)
str(dd) == ToString(dd)

\* r = 1 + d
RowOf(dd) == 1 + dd

\* the holiday test placed before the weekend test
RowKind_HolidayFirst(dd) ==
    IF <<anio, mes, dd>> \in feriados THEN "holiday"
    ELSE IF is_weekend(dd) THEN "weekend"
    ELSE IF Truthy(dd) THEN "note"
    ELSE "regular"

\* the note test placed before the holiday test
RowKind_NoteFirst(dd) ==
    IF is_weekend(dd) THEN "weekend"
    ELSE IF Truthy(dd) THEN "note"
    ELSE IF <<anio, mes, dd>> \in feriados THEN "holiday"
    ELSE "regular"

\* the order in which the loop body tests a day: weekend, then holiday, then
\* a truthy note, else a regular workday
RowKind(dd) ==
    IF is_weekend(dd) THEN "weekend"
    ELSE IF <<anio, mes, dd>> \in feriados THEN "holiday"
    ELSE IF Truthy(dd) THEN "note"
    ELSE "regular"

\* the day number tested in place of the weekday index
HasExtras_ByDay(dd) == dd \in extras_dow

\* dow in extras_dow
HasExtras(dd) == dow(dd) \in extras_dow

(***************************************************************************)
(* generar_planilla_word and build_table                                   *)
(***************************************************************************)
\* no form is involved in a run
InitGuiIdle ==
    /\ ui = <<>>
    /\ gpc = "idle"
    /\ dialogs = <<>>
    /\ calls = <<>>

InitParserIdle ==
    /\ ppc = "idle"
    /\ text = <<>>
    /\ parts = <<>>
    /\ idx = 0
    /\ out = {}

Init ==
    /\ pc = "call"
    /\ mes \in Months
    /\ anio \in Years
    /\ \E tp \in TimePairs : hora_maniana = tp[1] /\ hora_tarde = tp[2]
    /\ extras_dow \in ExtrasChoices
    /\ notas_por_dia \in NoteMaps
    /\ feriados \in SUBSET MarkDates(anio, mes)
    /\ header = FALSE
    /\ table = <<>>
    /\ shade = <<>>
    /\ d = 0
    /\ file = "absent"
    /\ InitParserIdle
    /\ InitGuiIdle

inputVars == <<mes, anio, hora_maniana, hora_tarde, extras_dow,
               notas_por_dia, feriados>>

\* doc = Document(); add_header(...); doc.add_paragraph("")
AddHeader ==
    /\ pc = "call"
    /\ header' = TRUE
    /\ pc' = "build"
    /\ UNCHANGED <<inputVars, table, shade, d, file, parseVars, guiVars>>

\* build_table up to the day loop, when calendar.monthrange raises
BuildTableBadMonth ==
    /\ pc = "build"
    /\ MonthrangeRaises(anio, mes)
    /\ pc' = "raised"
    /\ UNCHANGED <<inputVars, header, table, shade, d, file, parseVars, guiVars>>

\* build_table up to the day loop: the table and its two header rows
BuildTableOpen ==
    /\ pc = "build"
    /\ ~MonthrangeRaises(anio, mes)
    /\ LET rows == 2 + ndays(CalYear(anio), mes)
           t0 == add_table(rows)
       IN  /\ table' = [t0 EXCEPT ![0] = hdr0, ![1] = hdr1]
           /\ shade' = ShadeRow(t0, 1, "EFEFEF")
    /\ d' = 1
    /\ pc' = "days"
    /\ UNCHANGED <<inputVars, header, file, parseVars, guiVars>>

InLoop == pc = "days" /\ d <= ndays(CalYear(anio), mes)

\* current_date = date(anio, mes, d) raises ValueError
DayRowBadDate ==
    /\ InLoop
    /\ ~ValidDate(anio, mes, d)
    /\ pc' = "raised"
    /\ UNCHANGED <<inputVars, header, table, shade, d, file, parseVars, guiVars>>

\* the day number, written before the row is classified
DayCell(dd) == SetText(table, RowOf(dd), 0, str(dd))

DayRowWeekend ==
    /\ InLoop
    /\ ValidDate(anio, mes, d)
    /\ RowKind(d) = "weekend"
    /\ LET label == IF dow(d) = 5 THEN "SABADO" ELSE "DOMINGO"
       IN  table' = WeekendDashes(SetText(DayCell(d), RowOf(d), 1, label), RowOf(d))
    /\ shade' = ShadeRow(shade, RowOf(d), "F8F8F8")
    /\ d' = d + 1
    /\ UNCHANGED <<pc, inputVars, header, file, parseVars, guiVars>>

DayRowHoliday ==
    /\ InLoop
    /\ ValidDate(anio, mes, d)
    /\ RowKind(d) = "holiday"
    /\ table' = fill_dashes(SetText(DayCell(d), RowOf(d), 1, "FERIADO"), RowOf(d))
    /\ shade' = ShadeRow(shade, RowOf(d), "FFF2CC")
    /\ d' = d + 1
    /\ UNCHANGED <<pc, inputVars, header, file, parseVars, guiVars>>

DayRowNote ==
    /\ InLoop
    /\ ValidDate(anio, mes, d)
    /\ RowKind(d) = "note"
    /\ table' = fill_dashes(SetText(DayCell(d), RowOf(d), 1, special_note(d)), RowOf(d))
    /\ d' = d + 1
    /\ UNCHANGED <<pc, inputVars, header, shade, file, parseVars, guiVars>>

\* the cells of a regular row, in the order the code writes them; the write
\* of element k of a pair raises IndexError when the pair is shorter
MorningRaises == Len(hora_maniana) < 2
AfternoonRaises(dd) == HasExtras(dd) /\ Len(hora_tarde) < 2

Morning(t, r) == SetText(SetText(t, r, 1, hora_maniana[1]), r, 3, hora_maniana[2])

Signatures(t, r) ==
    [t EXCEPT ![r] = [c \in Cols |-> IF c \in {2, 4, 6, 8} THEN "" ELSE t[r][c]]]

Afternoon(t, r, dd) ==
    IF HasExtras(dd)
    THEN SetText(SetText(t, r, 5, hora_tarde[1]), r, 7, hora_tarde[2])
    ELSE SetText(SetText(t, r, 5, "---"), r, 7, "---")

DayRowRegular ==
    /\ InLoop
    /\ ValidDate(anio, mes, d)
    /\ RowKind(d) = "regular"
    /\ ~MorningRaises /\ ~AfternoonRaises(d)
    /\ table' = Afternoon(Signatures(Morning(DayCell(d), RowOf(d)), RowOf(d)), RowOf(d), d)
    /\ d' = d + 1
    /\ UNCHANGED <<pc, inputVars, header, shade, file, parseVars, guiVars>>

\* hora_maniana[1] raises IndexError after hora_maniana[0] was written
DayRowMorningError ==
    /\ InLoop
    /\ ValidDate(anio, mes, d)
    /\ RowKind(d) = "regular"
    /\ MorningRaises
    /\ table' = SetText(DayCell(d), RowOf(d), 1, hora_maniana[1])
    /\ pc' = "raised"
    /\ UNCHANGED <<inputVars, header, shade, d, file, parseVars, guiVars>>

\* hora_tarde[1] raises IndexError after hora_tarde[0] was written
DayRowAfternoonError ==
    /\ InLoop
    /\ ValidDate(anio, mes, d)
    /\ RowKind(d) = "regular"
    /\ ~MorningRaises /\ AfternoonRaises(d)
    /\ table' = SetText(Signatures(Morning(DayCell(d), RowOf(d)), RowOf(d)),
                        RowOf(d), 5, hora_tarde[1])
    /\ pc' = "raised"
    /\ UNCHANGED <<inputVars, header, shade, d, file, parseVars, guiVars>>

\* the loop is over: doc.add_paragraph("\\") and return to the caller
BuildTableClose ==
    /\ pc = "days"
    /\ d > ndays(CalYear(anio), mes)
    /\ pc' = "save"
    /\ UNCHANGED <<inputVars, header, table, shade, d, file, parseVars, guiVars>>

\* the save placed before build_table
Save_BeforeBuild ==
    /\ pc = "build"
    /\ file = "absent"
    /\ file' = "written"
    /\ UNCHANGED <<pc, inputVars, header, table, shade, d, parseVars, guiVars>>

\* doc.save(out_path)
Save ==
    /\ pc = "save"
    /\ file' = "written"
    /\ pc' = "returned"
    /\ UNCHANGED <<inputVars, header, table, shade, d, parseVars, guiVars>>

Next ==
    \/ AddHeader
    \/ BuildTableBadMonth
    \/ BuildTableOpen
    \/ DayRowBadDate
    \/ DayRowWeekend
    \/ DayRowHoliday
    \/ DayRowNote
    \/ DayRowRegular
    \/ DayRowMorningError
    \/ DayRowAfternoonError
    \/ BuildTableClose
    \/ Save

Spec == Init /\ [][Next]_vars

(***************************************************************************)
(* Properties of build_table and generar_planilla_word                     *)
(***************************************************************************)
\* the calendar's length of a month, stated from the Gregorian rule
DaysOfMonth(y, m) ==
    LET common == <<31, 28, 31, 30, 31, 30, 31, 31, 30, 31, 30, 31>>
        leap == IF y % 100 = 0 THEN y % 400 = 0 ELSE y % 4 = 0
    IN  IF m = 2 /\ leap THEN 29 ELSE common[m]

ValidMonthYear == mes \in 1..12 /\ anio \in 1..9999

\* the row of day dd has been finished by the loop
RowDone(dd) == pc \in {"days", "save", "returned", "raised"} /\ 1 <= dd /\ dd < d

\* the loop has finished every row
TableBuilt == pc \in {"save", "returned"}

DoneDays == IF pc \in {"days", "save", "returned", "raised"} THEN 1..(d - 1) ELSE {}

ConfiguredTimes ==
    {hora_maniana[i] : i \in DOMAIN hora_maniana} \cup {hora_tarde[i] : i \in DOMAIN hora_tarde}

NoTimeInRow(r) == \A c \in Cols : table[r][c] \notin ConfiguredTimes

NoteTextAbsent(dd) ==
    (dd \in DOMAIN notas_por_dia /\ notas_por_dia[dd] # "")
        => \A c \in Cols : table[dd + 1][c] # notas_por_dia[dd]

IsHoliday(dd) == <<anio, mes, dd>> \in feriados

\* C1: a built table has exactly 2 header rows and then one row per day of
\* the month (28..31, leap years included); the row of day d is row d + 1 and
\* its first cell holds d, so the days appear in increasing order, none
\* missing, none repeated.
T_C1 ==
    /\ TableBuilt =>
         /\ ValidMonthYear
         /\ DOMAIN table = 0..(DaysOfMonth(anio, mes) + 1)
         /\ DaysOfMonth(anio, mes) \in 28..31
         /\ table[0] = hdr0 /\ table[1] = hdr1
         /\ \A dd \in 1..DaysOfMonth(anio, mes) : table[dd + 1][0] = ToString(dd)
    /\ \A dd \in DoneDays : table[dd + 1][0] = ToString(dd)

W_C1 ==
    /\ pc = "returned" /\ mes = 2 /\ anio = 2024
    /\ DOMAIN table = 0..30
    /\ table[30][0] = "29"

\* C2: a day whose weekday index is 5 or 6 gets the weekend row (SABADO or
\* DOMINGO, dashes, blank signatures, all nine cells light gray) whether or
\* not it is a holiday or has a note; no holiday label, note text or
\* configured time is in the row.
T_C2 ==
    \A dd \in DoneDays :
        dow(dd) \in {5, 6} =>
            LET r == dd + 1 IN
            /\ table[r][0] = ToString(dd)
            /\ table[r][1] = (IF dow(dd) = 5 THEN "SABADO" ELSE "DOMINGO")
            /\ \A c \in {3, 5, 7} : table[r][c] = "---"
            /\ \A c \in {2, 4, 6, 8} : table[r][c] = ""
            /\ \A c \in Cols : shade[r][c] = "F8F8F8"
            /\ \A c \in Cols : table[r][c] # "FERIADO"
            /\ NoTimeInRow(r)
            /\ NoteTextAbsent(dd)

W_C2 ==
    \E dd \in DoneDays :
        /\ dow(dd) = 5
        /\ IsHoliday(dd)
        /\ dd \in DOMAIN notas_por_dia /\ notas_por_dia[dd] = "LICENCIA"
        /\ table[dd + 1][1] = "SABADO"

\* C3: a non-weekend day in the holiday set gets the holiday row (all nine
\* cells light yellow, no configured time) even when its day number is a key
\* of the note map, and the note text is not in the row.
T_C3 ==
    \A dd \in DoneDays :
        (dow(dd) < 5 /\ IsHoliday(dd)) =>
            LET r == dd + 1 IN
            /\ \A c \in Cols : shade[r][c] = "FFF2CC"
            /\ NoTimeInRow(r)
            /\ NoteTextAbsent(dd)

W_C3 ==
    \E dd \in DoneDays :
        /\ dow(dd) < 5
        /\ IsHoliday(dd)
        /\ dd \in DOMAIN notas_por_dia /\ notas_por_dia[dd] = "LICENCIA"
        /\ shade[dd + 1][0] = "FFF2CC"

\* C4: the finished row of a non-weekend holiday shows FERIADO in its label
\* cell (column 1), "---" in the remaining time columns and blank signature
\* columns.
CE_C4 ==
    \A dd \in DoneDays :
        (dow(dd) < 5 /\ IsHoliday(dd)) =>
            LET r == dd + 1 IN
            /\ table[r][1] = "FERIADO"
            /\ \A c \in {3, 5, 7} : table[r][c] = "---"
            /\ \A c \in {2, 4, 6, 8} : table[r][c] = ""

\* C5: the finished row of a non-weekend, non-holiday day whose number is a
\* key of the note map (whatever the text, the empty text included) shows the
\* note text in its label cell, dashes in the time columns, blank signature
\* columns and no configured time.
CE_C5 ==
    \A dd \in DoneDays :
        (dow(dd) < 5 /\ ~IsHoliday(dd) /\ dd \in DOMAIN notas_por_dia) =>
            LET r == dd + 1 IN
            /\ table[r][1] = notas_por_dia[dd]
            /\ \A c \in {3, 5, 7} : table[r][c] = "---"
            /\ \A c \in {2, 4, 6, 8} : table[r][c] = ""
            /\ NoTimeInRow(r)

\* C6: the row of a day that is no weekend, no holiday and has no note shows
\* the morning pair in columns 1 and 3; columns 5 and 7 show the afternoon
\* pair if and only if the weekday index is in the afternoon set, and "---"
\* otherwise; the four signature columns are blank.
T_C6 ==
    \A dd \in DoneDays :
        (dow(dd) < 5 /\ ~IsHoliday(dd) /\ dd \notin DOMAIN notas_por_dia) =>
            LET r == dd + 1 IN
            /\ Len(hora_maniana) >= 2 /\ Len(hora_tarde) >= 1
            /\ table[r][1] = hora_maniana[1] /\ table[r][3] = hora_maniana[2]
            /\ (dow(dd) \in extras_dow) <=>
                  (Len(hora_tarde) >= 2 /\ table[r][5] = hora_tarde[1]
                                        /\ table[r][7] = hora_tarde[2])
            /\ (dow(dd) \notin extras_dow) => (table[r][5] = "---" /\ table[r][7] = "---")
            /\ \A c \in {2, 4, 6, 8} : table[r][c] = ""

W_C6 ==
    \E d1, d2 \in DoneDays :
        /\ \A dd \in {d1, d2} :
              dow(dd) < 5 /\ ~IsHoliday(dd) /\ dd \notin DOMAIN notas_por_dia
        /\ dow(d1) \in extras_dow /\ table[d1 + 1][5] = "16:00" /\ table[d1 + 1][7] = "19:00"
        /\ dow(d2) \notin extras_dow /\ table[d2 + 1][5] = "---"

\* the file is written only after the identification block and every day
\* row were built
WrittenOnlyWhenComplete ==
    file = "written" =>
        /\ pc = "returned"
        /\ header
        /\ ValidMonthYear
        /\ DOMAIN table = 0..(DaysOfMonth(anio, mes) + 1)
        /\ d = DaysOfMonth(anio, mes) + 1

\* an error that reaches the caller leaves no file
FailureLeavesNoFile == pc = "raised" => file = "absent"

Digits == {"0", "1", "2", "3", "4", "5", "6", "7", "8", "9"}

DigitVal(c) ==
    CASE c = "0" -> 0 [] c = "1" -> 1 [] c = "2" -> 2 [] c = "3" -> 3
      [] c = "4" -> 4 [] c = "5" -> 5 [] c = "6" -> 6 [] c = "7" -> 7
      [] c = "8" -> 8 [] c = "9" -> 9

\* s.split(sep): the pieces between the separators, at least one piece
RECURSIVE Split(_, _)
Split(s, sep) ==
    IF \A i \in 1..Len(s) : s[i] # sep
    THEN <<s>>
    ELSE LET i == CHOOSE k \in 1..Len(s) :
                      s[k] = sep /\ \A j \in 1..(k - 1) : s[j] # sep
         IN  <<SubSeq(s, 1, i - 1)>> \o Split(SubSeq(s, i + 1, Len(s)), sep)

\* s.split(sep, 1) of a text that holds sep: the text before the first
\* separator and the text after it
SplitFirst(s, sep) ==
    LET i == CHOOSE k \in 1..Len(s) : s[k] = sep /\ \A j \in 1..(k - 1) : s[j] # sep
    IN  <<SubSeq(s, 1, i - 1), SubSeq(s, i + 1, Len(s))>>

\* s.strip(): leading and trailing blanks removed
RECURSIVE Strip(_)
Strip(s) ==
    IF s = <<>> THEN s
    ELSE IF Head(s) = " " THEN Strip(Tail(s))
    ELSE IF s[Len(s)] = " " THEN Strip(SubSeq(s, 1, Len(s) - 1))
    ELSE s

\* s.isdigit(): not empty, digits only
isdigit(s) == s # <<>> /\ \A i \in 1..Len(s) : s[i] \in Digits

\* the value of a text of digits
RECURSIVE DigitsVal(_)
DigitsVal(s) ==
    IF s = <<>> THEN 0
    ELSE 10 * DigitsVal(SubSeq(s, 1, Len(s) - 1)) + DigitVal(s[Len(s)])

\* int(s) accepts blanks around an optionally signed text of digits, and
\* raises ValueError for every other text over the model's characters
Unsigned(s) == IF s # <<>> /\ Head(s) \in {"+", "-"} THEN Tail(s) ELSE s

IntParses(s) == isdigit(Unsigned(Strip(s)))

int(s) ==
    LET t == Strip(s)
    IN  IF Head(t) = "-" THEN 0 - DigitsVal(Tail(t)) ELSE DigitsVal(Unsigned(t))

\* ",".join(tokens)
RECURSIVE Join(_)
Join(ts) ==
    IF ts = <<>> THEN <<>>
    ELSE IF Len(ts) = 1 THEN ts[1]
    ELSE ts[1] \o <<",">> \o Join(Tail(ts))

\* the token sequences of at most n tokens
TokenSeqs(T, n) == UNION { [1..k -> T] : k \in 0..n }

InitTableIdle ==
    /\ pc = "idle"
    /\ mes = 1
    /\ anio = 1
    /\ hora_maniana = <<>>
    /\ hora_tarde = <<>>
    /\ extras_dow = {}
    /\ notas_por_dia = <<>>
    /\ feriados = {}
    /\ header = FALSE
    /\ table = <<>>
    /\ shade = <<>>
    /\ d = 0
    /\ file = "absent"

(***************************************************************************)
(* parse_date_list                                                         *)
(***************************************************************************)
\* the comma-free tokens the inputs of parse_date_list are made of:
\*   "2025-07-09"
\*   "2025-7-9"
\*   "2025-07-19"
\*   "2024-02-29"
\*   "2025-02-29"
\*   "2025-13-01"
\*   "2025-07"
\*   "2025-07-09-01"
\*   "bad"
\*   ""
\*   " 2025 -07-19 "
\*   "20x5-07-09"
\*   "0-01-01"
DateTokens ==
    { <<"2", "0", "2", "5", "-", "0", "7", "-", "0", "9">>,
      <<"2", "0", "2", "5", "-", "7", "-", "9">>,
      <<"2", "0", "2", "5", "-", "0", "7", "-", "1", "9">>,
      <<"2", "0", "2", "4", "-", "0", "2", "-", "2", "9">>,
      <<"2", "0", "2", "5", "-", "0", "2", "-", "2", "9">>,
      <<"2", "0", "2", "5", "-", "1", "3", "-", "0", "1">>,
      <<"2", "0", "2", "5", "-", "0", "7">>,
      <<"2", "0", "2", "5", "-", "0", "7", "-", "0", "9", "-", "0", "1">>,
      <<"b", "a", "d">>,
      <<>>,
      <<" ", "2", "0", "2", "5", " ", "-", "0", "7", "-", "1", "9", " ">>,
      <<"2", "0", "x", "5", "-", "0", "7", "-", "0", "9">>,
      <<"0", "-", "0", "1", "-", "0", "1">> }

InitDates ==
    /\ InitTableIdle
    /\ InitGuiIdle
    /\ ppc = "start"
    /\ \E ts \in TokenSeqs(DateTokens, MaxToks) : text = Join(ts)
    /\ parts = <<>>
    /\ idx = 0
    /\ out = {}

\* the first three segments taken from a token that has more
DateUnpacks_FirstThree(tok) ==
    LET segs == Split(tok, "-")
    IN  Len(segs) >= 3 /\ \A i \in 1..3 : IntParses(segs[i])

\* y, m, d = map(int, tok.split("-")) succeeds
DateUnpacks(tok) ==
    LET segs == Split(tok, "-")
    IN  Len(segs) = 3 /\ \A i \in 1..3 : IntParses(segs[i])

DateArgs(tok) ==
    LET segs == Split(tok, "-") IN <<int(segs[1]), int(segs[2]), int(segs[3])>>

\* the try block adds a date
DateAccepted(tok) ==
    /\ DateUnpacks(tok)
    /\ ValidDate(DateArgs(tok)[1], DateArgs(tok)[2], DateArgs(tok)[3])

\* if not text: return out
ParseDateEmpty ==
    /\ ppc = "start"
    /\ text = <<>>
    /\ ppc' = "done"
    /\ UNCHANGED <<text, parts, idx, out, tblVars, guiVars>>

\* text.split(",")
ParseDateSplit ==
    /\ ppc = "start"
    /\ text # <<>>
    /\ parts' = Split(text, ",")
    /\ idx' = 1
    /\ ppc' = "loop"
    /\ UNCHANGED <<text, out, tblVars, guiVars>>

\* one iteration whose try block succeeds: out.add(date(y, m, d))
ParseDateAdd ==
    /\ ppc = "loop"
    /\ idx <= Len(parts)
    /\ DateAccepted(Strip(parts[idx]))
    /\ out' = out \cup {DateArgs(Strip(parts[idx]))}
    /\ idx' = idx + 1
    /\ UNCHANGED <<ppc, text, parts, tblVars, guiVars>>

\* one iteration whose try block raises: except Exception: pass
ParseDateSkip ==
    /\ ppc = "loop"
    /\ idx <= Len(parts)
    /\ ~DateAccepted(Strip(parts[idx]))
    /\ idx' = idx + 1
    /\ UNCHANGED <<ppc, text, parts, out, tblVars, guiVars>>

\* return out
ParseDateReturn ==
    /\ ppc = "loop"
    /\ idx > Len(parts)
    /\ ppc' = "done"
    /\ UNCHANGED <<text, parts, idx, out, tblVars, guiVars>>

NextDates ==
    \/ ParseDateEmpty
    \/ ParseDateSplit
    \/ ParseDateAdd
    \/ ParseDateSkip
    \/ ParseDateReturn

SpecDates == InitDates /\ [][NextDates]_vars

(***************************************************************************)
(* What a text denotes, stated on the positions of the text                *)
(***************************************************************************)
MinOf(S) == CHOOSE x \in S : \A y \in S : x <= y
MaxOf(S) == CHOOSE x \in S : \A y \in S : x >= y

\* the tokens of a text: the maximal comma-free stretches <<a, b>> (b = a - 1
\* for an empty token), in the order of their first positions
TokenSpans(s) ==
    LET starts == {a \in 1..(Len(s) + 1) : a = 1 \/ s[a - 1] = ","}
        EndOf(a) == LET cs == {k \in a..Len(s) : s[k] = ","}
                    IN  IF cs = {} THEN Len(s) ELSE MinOf(cs) - 1
    IN  {<<a, EndOf(a)>> : a \in starts}

NonBlank(s, a, b) == {k \in a..b : s[k] # " "}

\* the stretch a..b is a decimal numeral, optionally signed, blanks around it
IsNumeral(s, a, b) ==
    LET nb == NonBlank(s, a, b)
    IN  /\ nb # {}
        /\ \A k \in MinOf(nb)..MaxOf(nb) :
              s[k] \in Digits \/ (k = MinOf(nb) /\ s[k] \in {"+", "-"})
        /\ s[MaxOf(nb)] \in Digits

RECURSIVE Pow10(_)
Pow10(n) == IF n = 0 THEN 1 ELSE 10 * Pow10(n - 1)

RECURSIVE PlaceValue(_, _, _)
PlaceValue(s, i, j) ==
    IF i > j THEN 0
    ELSE IF s[i] \in {"+", "-"} THEN PlaceValue(s, i + 1, j)
    ELSE DigitVal(s[i]) * Pow10(j - i) + PlaceValue(s, i + 1, j)

NumeralValue(s, a, b) ==
    LET nb == NonBlank(s, a, b)
        v == PlaceValue(s, MinOf(nb), MaxOf(nb))
    IN  IF s[MinOf(nb)] = "-" THEN 0 - v ELSE v

\* the stretch a..b with the blanks at its ends removed
Trimmed(s, a, b) ==
    LET nb == NonBlank(s, a, b)
    IN  IF nb = {} THEN <<>> ELSE SubSeq(s, MinOf(nb), MaxOf(nb))

\* a well-formed date token: three numerals separated by two hyphens that
\* name a day of the calendar (years 1..9999)
WellFormedDate(s, sp) ==
    LET hy == {k \in sp[1]..sp[2] : s[k] = "-"}
    IN  /\ Cardinality(hy) = 2
        /\ IsNumeral(s, sp[1], MinOf(hy) - 1)
        /\ IsNumeral(s, MinOf(hy) + 1, MaxOf(hy) - 1)
        /\ IsNumeral(s, MaxOf(hy) + 1, sp[2])
        /\ LET y == NumeralValue(s, sp[1], MinOf(hy) - 1)
               m == NumeralValue(s, MinOf(hy) + 1, MaxOf(hy) - 1)
               dd == NumeralValue(s, MaxOf(hy) + 1, sp[2])
           IN  /\ y \in 1..9999
               /\ m \in 1..12
               /\ dd \in 1..DaysOfMonth(y, m)

DenotedDate(s, sp) ==
    LET hy == {k \in sp[1]..sp[2] : s[k] = "-"}
    IN  << NumeralValue(s, sp[1], MinOf(hy) - 1),
           NumeralValue(s, MinOf(hy) + 1, MaxOf(hy) - 1),
           NumeralValue(s, MaxOf(hy) + 1, sp[2]) >>

ExpectedDates(s) ==
    {DenotedDate(s, sp) : sp \in {q \in TokenSpans(s) : WellFormedDate(s, q)}}

\* C7: parse_date_list never raises and returns exactly the dates denoted by
\* the well-formed tokens of its input; a malformed token (wrong number of
\* segments, a segment that is no number, no day of the calendar) is dropped
\* and the tokens around it are kept; the empty input gives the empty set.
T_C7 ==
    /\ ppc \in {"start", "loop", "done"}
    /\ ppc = "done" => out = ExpectedDates(text)
    /\ (ppc = "done" /\ text = <<>>) => out = {}

W_C7 ==
    /\ ppc = "done"
    /\ text = Join(<< <<"2","0","2","5","-","0","7","-","0","9">>,
                      <<"b","a","d">>,
                      <<"2","0","2","5","-","0","7","-","1","9">> >>)
    /\ out = {<<2025, 7, 9>>, <<2025, 7, 19>>}

(***************************************************************************)
(* parse_notes                                                             *)
(***************************************************************************)
\* the comma-free tokens the inputs of parse_notes are made of:
\*   "16:A"
\*   "16:B"
\*   "17:C"
\*   "x:X"
\*   "16"
\*   "16:"
\*   " 16 : A b "
\*   "16:a:b"
\*   ""
\*   ":x"
\*   "-3:x"
NoteTokens ==
    { <<"1", "6", ":", "A">>,
      <<"1", "6", ":", "B">>,
      <<"1", "7", ":", "C">>,
      <<"x", ":", "X">>,
      <<"1", "6">>,
      <<"1", "6", ":">>,
      <<" ", "1", "6", " ", ":", " ", "A", " ", "b", " ">>,
      <<"1", "6", ":", "a", ":", "b">>,
      <<>>,
      <<":", "x">>,
      <<"-", "3", ":", "x">> }

InitNotes ==
    /\ InitTableIdle
    /\ InitGuiIdle
    /\ ppc = "start"
    /\ \E ts \in TokenSeqs(NoteTokens, MaxToks) : text = Join(ts)
    /\ parts = <<>>
    /\ idx = 0
    /\ out = <<>>

\* ":" in tok
HasColon(tok) == \E i \in 1..Len(tok) : tok[i] = ":"

\* a token cut at its last colon
NoteKV_LastColon(tok) ==
    LET i == CHOOSE k \in 1..Len(tok) :
                 tok[k] = ":" /\ \A j \in (k + 1)..Len(tok) : tok[j] # ":"
    IN  <<SubSeq(tok, 1, i - 1), SubSeq(tok, i + 1, Len(tok))>>

\* k, v = tok.split(":", 1)
NoteKV(tok) == SplitFirst(tok, ":")

\* out[key] = value
DictSet(f, key, value) ==
    [k \in (DOMAIN f) \cup {key} |-> IF k = key THEN value ELSE f[k]]

\* if not text: return out
ParseNotesEmpty ==
    /\ ppc = "start"
    /\ text = <<>>
    /\ ppc' = "done"
    /\ UNCHANGED <<text, parts, idx, out, tblVars, guiVars>>

\* text.split(",")
ParseNotesSplit ==
    /\ ppc = "start"
    /\ text # <<>>
    /\ parts' = Split(text, ",")
    /\ idx' = 1
    /\ ppc' = "loop"
    /\ UNCHANGED <<text, out, tblVars, guiVars>>

\* a token without a colon: nothing is done
ParseNotesNoColon ==
    /\ ppc = "loop"
    /\ idx <= Len(parts)
    /\ ~HasColon(Strip(parts[idx]))
    /\ idx' = idx + 1
    /\ UNCHANGED <<ppc, text, parts, out, tblVars, guiVars>>

\* out[int(k)] = v.strip()
ParseNotesSet ==
    /\ ppc = "loop"
    /\ idx <= Len(parts)
    /\ HasColon(Strip(parts[idx]))
    /\ LET kv == NoteKV(Strip(parts[idx]))
       IN  /\ IntParses(kv[1])
           /\ out' = DictSet(out, int(kv[1]), Strip(kv[2]))
    /\ idx' = idx + 1
    /\ UNCHANGED <<ppc, text, parts, tblVars, guiVars>>

\* int(k) raises: except: continue
ParseNotesBadKey ==
    /\ ppc = "loop"
    /\ idx <= Len(parts)
    /\ HasColon(Strip(parts[idx]))
    /\ ~IntParses(NoteKV(Strip(parts[idx]))[1])
    /\ idx' = idx + 1
    /\ UNCHANGED <<ppc, text, parts, out, tblVars, guiVars>>

\* return out
ParseNotesReturn ==
    /\ ppc = "loop"
    /\ idx > Len(parts)
    /\ ppc' = "done"
    /\ UNCHANGED <<text, parts, idx, out, tblVars, guiVars>>

NextNotes ==
    \/ ParseNotesEmpty
    \/ ParseNotesSplit
    \/ ParseNotesNoColon
    \/ ParseNotesSet
    \/ ParseNotesBadKey
    \/ ParseNotesReturn

SpecNotes == InitNotes /\ [][NextNotes]_vars

\* a token with a colon whose stretch before the first colon is a numeral
FirstColon(s, sp) == MinOf({k \in sp[1]..sp[2] : s[k] = ":"})

GoodNote(s, sp) ==
    /\ \E k \in sp[1]..sp[2] : s[k] = ":"
    /\ IsNumeral(s, sp[1], FirstColon(s, sp) - 1)

NoteDay(s, sp) == NumeralValue(s, sp[1], FirstColon(s, sp) - 1)

NoteText(s, sp) == Trimmed(s, FirstColon(s, sp) + 1, sp[2])

GoodNotes(s) == {sp \in TokenSpans(s) : GoodNote(s, sp)}

\* C8 as stated: parse_notes never raises; the result maps the day of every
\* token with a numeric day segment to the trimmed text after the token's
\* first colon; tokens without a colon or with a non-numeric day are dropped;
\* the empty input gives the empty mapping.
CE_C8 ==
    /\ ppc \in {"start", "loop", "done"}
    /\ ppc = "done" =>
         /\ DOMAIN out = {NoteDay(text, sp) : sp \in GoodNotes(text)}
         /\ \A sp \in GoodNotes(text) : out[NoteDay(text, sp)] = NoteText(text, sp)
    /\ (ppc = "done" /\ text = <<>>) => DOMAIN out = {}

\* C8 as amended: as above, but when several tokens carry the same day the
\* result maps that day to the text of the last of them.
T_C8 ==
    /\ ppc \in {"start", "loop", "done"}
    /\ ppc = "done" =>
         /\ DOMAIN out = {NoteDay(text, sp) : sp \in GoodNotes(text)}
         /\ \A sp \in GoodNotes(text) :
               (\A q \in GoodNotes(text) :
                    NoteDay(text, q) = NoteDay(text, sp) => q[1] <= sp[1])
                 => out[NoteDay(text, sp)] = NoteText(text, sp)
    /\ (ppc = "done" /\ text = <<>>) => DOMAIN out = {}

W_C8 ==
    /\ ppc = "done"
    /\ text = Join(<< <<"1","6",":","A">>, <<"x",":","X">>, <<"1","7",":","C">> >>)
    /\ DOMAIN out = {16, 17}
    /\ out[16] = <<"A">> /\ out[17] = <<"C">>

(***************************************************************************)
(* PlanillaApp._parse_horas                                                *)
(***************************************************************************)
\* the comma-free tokens the inputs of _parse_horas are made of:
\*   "06:30"
\*   "13:00"
\*   "6:30"
\*   "23:59"
\*   "25:00"
\*   "12:60"
\*   "1300"
\*   "06:30:00"
\*   "x6:30"
\*   " 13:00"
\*   "06 :30"
\*   ":30"
\*   ""
HoraTokens ==
    { <<"0", "6", ":", "3", "0">>,
      <<"1", "3", ":", "0", "0">>,
      <<"6", ":", "3", "0">>,
      <<"2", "3", ":", "5", "9">>,
      <<"2", "5", ":", "0", "0">>,
      <<"1", "2", ":", "6", "0">>,
      <<"1", "3", "0", "0">>,
      <<"0", "6", ":", "3", "0", ":", "0", "0">>,
      <<"x", "6", ":", "3", "0">>,
      <<" ", "1", "3", ":", "0", "0">>,
      <<"0", "6", " ", ":", "3", "0">>,
      <<":", "3", "0">>,
      <<>> }

InitHoras ==
    /\ InitTableIdle
    /\ InitGuiIdle
    /\ ppc = "start"
    /\ \E ts \in TokenSeqs(HoraTokens, MaxToks) : text = Join(ts)
    /\ parts = <<>>
    /\ idx = 0
    /\ out = <<>>

\* [p.strip() for p in text.split(",")]
StrippedParts(s) == [i \in 1..Len(Split(s, ",")) |-> Strip(Split(s, ",")[i])]

\* len(parts) != 2 or any(":" not in p for p in parts)
BadFormat(ps) == Len(ps) # 2 \/ \E i \in 1..Len(ps) : ~HasColon(ps[i])

\* a range test that forgets the minute
HoraInRange_HourOnly(hh, mm) == 0 <= DigitsVal(hh) /\ DigitsVal(hh) <= 23

\* 0 <= int(hh) <= 23 and 0 <= int(mm) <= 59
HoraInRange(hh, mm) ==
    /\ 0 <= DigitsVal(hh) /\ DigitsVal(hh) <= 23
    /\ 0 <= DigitsVal(mm) /\ DigitsVal(mm) <= 59

\* hhmm.split(":")
hhmm_parts(hhmm) == Split(hhmm, ":")

\* raise ValueError("Formato de hora invalido ...")
HorasFormatError ==
    /\ ppc = "start"
    /\ BadFormat(StrippedParts(text))
    /\ parts' = StrippedParts(text)
    /\ ppc' = "raised"
    /\ UNCHANGED <<text, idx, out, tblVars, guiVars>>

\* h1, h2 = parts[0], parts[1]
HorasFormatOk ==
    /\ ppc = "start"
    /\ ~BadFormat(StrippedParts(text))
    /\ parts' = StrippedParts(text)
    /\ idx' = 1
    /\ ppc' = "loop"
    /\ UNCHANGED <<text, out, tblVars, guiVars>>

HorasInLoop == ppc = "loop" /\ idx <= 2

\* len(hhmm_parts) != 2: raise ValueError("Hora invalida")
HorasSegmentsError ==
    /\ HorasInLoop
    /\ Len(hhmm_parts(parts[idx])) # 2
    /\ ppc' = "raised"
    /\ UNCHANGED <<text, parts, idx, out, tblVars, guiVars>>

\* not (hh.isdigit() and mm.isdigit()): raise ValueError("Hora invalida")
HorasDigitsError ==
    /\ HorasInLoop
    /\ Len(hhmm_parts(parts[idx])) = 2
    /\ ~(isdigit(hhmm_parts(parts[idx])[1]) /\ isdigit(hhmm_parts(parts[idx])[2]))
    /\ ppc' = "raised"
    /\ UNCHANGED <<text, parts, idx, out, tblVars, guiVars>>

\* raise ValueError("Hora fuera de rango")
HorasRangeError ==
    /\ HorasInLoop
    /\ Len(hhmm_parts(parts[idx])) = 2
    /\ isdigit(hhmm_parts(parts[idx])[1]) /\ isdigit(hhmm_parts(parts[idx])[2])
    /\ ~HoraInRange(hhmm_parts(parts[idx])[1], hhmm_parts(parts[idx])[2])
    /\ ppc' = "raised"
    /\ UNCHANGED <<text, parts, idx, out, tblVars, guiVars>>

\* the time passes the three tests
HorasTimeOk ==
    /\ HorasInLoop
    /\ Len(hhmm_parts(parts[idx])) = 2
    /\ isdigit(hhmm_parts(parts[idx])[1]) /\ isdigit(hhmm_parts(parts[idx])[2])
    /\ HoraInRange(hhmm_parts(parts[idx])[1], hhmm_parts(parts[idx])[2])
    /\ idx' = idx + 1
    /\ UNCHANGED <<ppc, text, parts, out, tblVars, guiVars>>

\* return h1, h2
HorasReturn ==
    /\ ppc = "loop"
    /\ idx > 2
    /\ out' = <<parts[1], parts[2]>>
    /\ ppc' = "done"
    /\ UNCHANGED <<text, parts, idx, tblVars, guiVars>>

NextHoras ==
    \/ HorasFormatError
    \/ HorasFormatOk
    \/ HorasSegmentsError
    \/ HorasDigitsError
    \/ HorasRangeError
    \/ HorasTimeOk
    \/ HorasReturn

SpecHoras == InitHoras /\ [][NextHoras]_vars

\* the stretch a..b is two stretches of digits, neither empty, around its
\* only colon, the first worth 0..23 and the second 0..59
IsTime(s, a, b) ==
    LET cs == {k \in a..b : s[k] = ":"}
    IN  /\ Cardinality(cs) = 1
        /\ LET c == MinOf(cs)
           IN  /\ a < c /\ c < b
               /\ \A k \in (a..b) \ {c} : s[k] \in Digits
               /\ PlaceValue(s, a, c - 1) \in 0..23
               /\ PlaceValue(s, c + 1, b) \in 0..59

\* a text of the form digits:digits with hour 0..23 and minute 0..59
ValidTime(t) == IsTime(t, 1, Len(t))

\* the tokens of a text in the order of the text
OrderedSpans(s) ==
    LET sps == TokenSpans(s)
    IN  [i \in 1..Cardinality(sps) |->
            CHOOSE sp \in sps : Cardinality({q \in sps : q[1] < sp[1]}) = i - 1]

\* exactly two comma-separated parts, each of them a time as it stands
AcceptedAsStated(s) ==
    /\ Cardinality(TokenSpans(s)) = 2
    /\ \A sp \in TokenSpans(s) : IsTime(s, sp[1], sp[2])

\* exactly two comma-separated parts, each of them a time once the blanks
\* at its ends are removed
TrimmedIsTime(s, sp) ==
    LET nb == NonBlank(s, sp[1], sp[2])
    IN  nb # {} /\ IsTime(s, MinOf(nb), MaxOf(nb))

AcceptedTrimmed(s) ==
    /\ Cardinality(TokenSpans(s)) = 2
    /\ \A sp \in TokenSpans(s) : TrimmedIsTime(s, sp)

\* C9 as stated: _parse_horas returns the pair if and only if the input has
\* exactly two comma-separated parts, each of them two colon-separated
\* all-digit segments with hour in 0..23 and minute in 0..59; every other
\* input fails with a format error; a returned pair holds two valid times.
CE_C9 ==
    /\ ppc = "done" =>
         /\ AcceptedAsStated(text)
         /\ out = [i \in 1..2 |->
                     SubSeq(text, OrderedSpans(text)[i][1], OrderedSpans(text)[i][2])]
         /\ ValidTime(out[1]) /\ ValidTime(out[2])
    /\ ppc = "raised" => ~AcceptedAsStated(text)

\* C9 as amended: the same with every part taken without the blanks at its
\* ends; the pair returned is the two parts so trimmed.
T_C9 ==
    /\ ppc = "done" =>
         /\ AcceptedTrimmed(text)
         /\ out = [i \in 1..2 |->
                     Trimmed(text, OrderedSpans(text)[i][1], OrderedSpans(text)[i][2])]
         /\ ValidTime(out[1]) /\ ValidTime(out[2])
    /\ ppc = "raised" => ~AcceptedTrimmed(text)

W_C9 ==
    /\ ppc = "done"
    /\ text = Join(<< <<"0","6",":","3","0">>, <<" ","1","3",":","0","0">> >>)
    /\ out = << <<"0","6",":","3","0">>, <<"1","3",":","0","0">> >>

(***************************************************************************)
(* PlanillaApp.generate                                                    *)
(***************************************************************************)
\* a main field (name, office, employee ID, output path): empty, blank, filled
MainFieldTexts == { <<>>,
                    <<" ">>,
                    <<"a">> }

\* the comma-free tokens the morning field is made of:
\*   "06:30", "13:00", "25:00", "x6:30", "06:30:00"
GuiHoraTokens ==
    { <<"0", "6", ":", "3", "0">>,
      <<"1", "3", ":", "0", "0">>,
      <<"2", "5", ":", "0", "0">>,
      <<"x", "6", ":", "3", "0">>,
      <<"0", "6", ":", "3", "0", ":", "0", "0">> }

\* the afternoon field: "16:00,19:00", "16:00"
HoraTardeTexts ==
    { <<"1", "6", ":", "0", "0", ",", "1", "9", ":", "0", "0">>,
      <<"1", "6", ":", "0", "0">> }

\* the weekday-set field: "1,3", "", "1,x"
ExtrasTexts ==
    { <<"1", ",", "3">>,
      <<>>,
      <<"1", ",", "x">> }

\* the holiday field: "", "2025-07-09,bad"
FeriadosTexts ==
    { <<>>,
      <<"2", "0", "2", "5", "-", "0", "7", "-", "0", "9", ",", "b", "a", "d">> }

\* the note field: "", "16:A,x:X,16"
NotasTexts ==
    { <<>>,
      <<"1", "6", ":", "A", ",", "x", ":", "X", ",", "1", "6">> }

\* the month combo's index and the year spin box (2020..2100)
MesAnioChoices == { <<0, 2020>>, <<11, 2100>> }

\* the option fields as the form is created (the month and the year are
\* then those of the day)
DefaultOptions ==
    [hora_m |-> <<"0", "6", ":", "3", "0", ",", "1", "3", ":", "0", "0">>,
     hora_t |-> <<"1", "6", ":", "0", "0", ",", "1", "9", ":", "0", "0">>,
     extras |-> <<"1", ",", "3">>,
     feriados |-> <<>>, notas |-> <<>>, mes_index |-> 0, anio |-> 2020]

OptionChoices ==
    [hora_m : {Join(ts) : ts \in TokenSeqs(GuiHoraTokens, MaxToks)},
     hora_t : HoraTardeTexts,
     extras : ExtrasTexts,
     feriados : FeriadosTexts,
     notas : NotasTexts,
     mes_index : {mi[1] : mi \in MesAnioChoices},
     anio : {mi[2] : mi \in MesAnioChoices}]

MainChoices ==
    [nombre : MainFieldTexts, oficina : MainFieldTexts,
     empleado : MainFieldTexts, out_path : MainFieldTexts]

FilledMain == [nombre |-> <<"a">>, oficina |-> <<"a">>,
               empleado |-> <<"a">>, out_path |-> <<"a">>]

\* the forms of the model: every filling of the main fields with the options
\* untouched, and every choice of options with the main fields filled
Forms ==
    {[main |-> m, opt |-> DefaultOptions] : m \in MainChoices}
      \cup {[main |-> FilledMain, opt |-> o] :
              o \in {x \in OptionChoices : <<x.mes_index, x.anio>> \in MesAnioChoices}}

InitGenerate ==
    /\ InitTableIdle
    /\ InitParserIdle
    /\ ui \in Forms
    /\ gpc = "clicked"
    /\ dialogs = <<>>
    /\ calls = <<>>

\* a main field counted as filled whatever blanks it holds
AllFilled_NoStrip(m) ==
    m.nombre # <<>> /\ m.oficina # <<>> /\ m.empleado # <<>> /\ m.out_path # <<>>

\* all([nombre, oficina, empleado, out_path]) of the stripped texts
AllFilled(m) ==
    /\ Strip(m.nombre) # <<>>
    /\ Strip(m.oficina) # <<>>
    /\ Strip(m.empleado) # <<>>
    /\ Strip(m.out_path) # <<>>

\* the tokens int() is applied to: if x.strip()
ExtrasTokens(t) ==
    IF Strip(t) = <<>> THEN {}
    ELSE LET xs == Split(Strip(t), ",")
         IN  {xs[i] : i \in {k \in 1..Len(xs) : Strip(xs[k]) # <<>>}}

\* tuple(int(x) for x in ...) raises ValueError
ExtrasRaises(t) == \E x \in ExtrasTokens(t) : ~IntParses(x)

\* the weekday indices of the tuple
ExtrasValue(t) == {int(x) : x \in ExtrasTokens(t)}

\* QMessageBox.warning(...); return
GenWarning ==
    /\ gpc = "clicked"
    /\ ~AllFilled(ui.main)
    /\ dialogs' = Append(dialogs, "warning")
    /\ gpc' = "end"
    /\ UNCHANGED <<ui, calls, tblVars, parseVars>>

\* self._parse_horas(self.hora_m_edit.text()) is entered
GenCallHoraM ==
    /\ gpc = "clicked"
    /\ AllFilled(ui.main)
    /\ text' = ui.opt.hora_m
    /\ ppc' = "start" /\ parts' = <<>> /\ idx' = 0 /\ out' = <<>>
    /\ calls' = Append(calls, "_parse_horas")
    /\ gpc' = "hora_m"
    /\ UNCHANGED <<ui, dialogs, tblVars>>

\* the morning pair is returned; self._parse_horas(self.hora_t_edit.text())
\* is entered
GenCallHoraT ==
    /\ gpc = "hora_m"
    /\ ppc = "done"
    /\ hora_maniana' = out
    /\ text' = ui.opt.hora_t
    /\ ppc' = "start" /\ parts' = <<>> /\ idx' = 0 /\ out' = <<>>
    /\ calls' = Append(calls, "_parse_horas")
    /\ gpc' = "hora_t"
    /\ UNCHANGED <<ui, dialogs, pc, mes, anio, hora_tarde, extras_dow,
                   notas_por_dia, feriados, header, table, shade, d, file>>

\* the afternoon pair is returned
GenHoraTReturned ==
    /\ gpc = "hora_t"
    /\ ppc = "done"
    /\ hora_tarde' = out
    /\ ppc' = "idle"
    /\ gpc' = "extras"
    /\ UNCHANGED <<ui, dialogs, calls, text, parts, idx, out, pc, mes, anio,
                   hora_maniana, extras_dow, notas_por_dia, feriados, header,
                   table, shade, d, file>>

\* _parse_horas raised: except Exception as e: QMessageBox.critical(...)
GenHoraRaised ==
    /\ gpc \in {"hora_m", "hora_t"}
    /\ ppc = "raised"
    /\ dialogs' = Append(dialogs, "critical")
    /\ gpc' = "end"
    /\ UNCHANGED <<ui, calls, tblVars, parseVars>>

\* int(x) raised in the weekday set: QMessageBox.critical(...)
GenExtrasRaised ==
    /\ gpc = "extras"
    /\ ExtrasRaises(ui.opt.extras)
    /\ dialogs' = Append(dialogs, "critical")
    /\ gpc' = "end"
    /\ UNCHANGED <<ui, calls, tblVars, parseVars>>

\* the weekday set is built; parse_date_list(self.feriados_edit.text()) is
\* entered
GenCallFeriados ==
    /\ gpc = "extras"
    /\ ~ExtrasRaises(ui.opt.extras)
    /\ extras_dow' = ExtrasValue(ui.opt.extras)
    /\ text' = ui.opt.feriados
    /\ ppc' = "start" /\ parts' = <<>> /\ idx' = 0 /\ out' = {}
    /\ calls' = Append(calls, "parse_date_list")
    /\ gpc' = "feriados"
    /\ UNCHANGED <<ui, dialogs, pc, mes, anio, hora_maniana, hora_tarde,
                   notas_por_dia, feriados, header, table, shade, d, file>>

\* the holiday set is returned; parse_notes(self.notas_edit.text()) is entered
GenCallNotas ==
    /\ gpc = "feriados"
    /\ ppc = "done"
    /\ feriados' = out
    /\ text' = ui.opt.notas
    /\ ppc' = "start" /\ parts' = <<>> /\ idx' = 0 /\ out' = <<>>
    /\ calls' = Append(calls, "parse_notes")
    /\ gpc' = "notas"
    /\ UNCHANGED <<ui, dialogs, pc, mes, anio, hora_maniana, hora_tarde,
                   extras_dow, notas_por_dia, header, table, shade, d, file>>

\* the note map is returned; generar_planilla_word(...) is entered with the
\* month of the combo, the year of the spin box and the parsed values
GenCallGenerar ==
    /\ gpc = "notas"
    /\ ppc = "done"
    /\ notas_por_dia' = out
    /\ ppc' = "idle"
    /\ mes' = ui.opt.mes_index + 1
    /\ anio' = ui.opt.anio
    /\ pc' = "call"
    /\ calls' = Append(calls, "generar_planilla_word")
    /\ gpc' = "generar"
    /\ UNCHANGED <<ui, dialogs, text, parts, idx, out, hora_maniana, hora_tarde,
                   extras_dow, feriados, header, table, shade, d, file>>

\* generar_planilla_word runs to its end: with a month of 1..12, a year of
\* 2020..2100 and two validated pairs build_table raises nothing, and the
\* file is saved
GenerarReturns ==
    /\ gpc = "generar"
    /\ pc = "call"
    /\ ~MonthrangeRaises(anio, mes) /\ ValidDate(anio, mes, 1)
    /\ Len(hora_maniana) >= 2 /\ Len(hora_tarde) >= 2
    /\ header' = TRUE
    /\ file' = "written"
    /\ pc' = "returned"
    /\ UNCHANGED <<inputVars, table, shade, d, parseVars, guiVars>>

\* doc.save(out_path) cannot write the path and raises
GenerarSaveRaises ==
    /\ gpc = "generar"
    /\ pc = "call"
    /\ header' = TRUE
    /\ pc' = "raised"
    /\ UNCHANGED <<inputVars, table, shade, d, file, parseVars, guiVars>>

\* QMessageBox.information(self, "Exito", ...)
GenSuccess ==
    /\ gpc = "generar"
    /\ pc = "returned"
    /\ dialogs' = Append(dialogs, "information")
    /\ gpc' = "end"
    /\ UNCHANGED <<ui, calls, tblVars, parseVars>>

\* the generator raised: QMessageBox.critical(...)
GenGenerarRaised ==
    /\ gpc = "generar"
    /\ pc = "raised"
    /\ dialogs' = Append(dialogs, "critical")
    /\ gpc' = "end"
    /\ UNCHANGED <<ui, calls, tblVars, parseVars>>

InHoras == gpc \in {"hora_m", "hora_t"}
InFeriados == gpc = "feriados"
InNotas == gpc = "notas"

NextGenerate ==
    \/ GenWarning
    \/ GenCallHoraM
    \/ (InHoras /\ HorasFormatError)
    \/ (InHoras /\ HorasFormatOk)
    \/ (InHoras /\ HorasSegmentsError)
    \/ (InHoras /\ HorasDigitsError)
    \/ (InHoras /\ HorasRangeError)
    \/ (InHoras /\ HorasTimeOk)
    \/ (InHoras /\ HorasReturn)
    \/ GenCallHoraT
    \/ GenHoraTReturned
    \/ GenHoraRaised
    \/ GenExtrasRaised
    \/ GenCallFeriados
    \/ (InFeriados /\ ParseDateEmpty)
    \/ (InFeriados /\ ParseDateSplit)
    \/ (InFeriados /\ ParseDateAdd)
    \/ (InFeriados /\ ParseDateSkip)
    \/ (InFeriados /\ ParseDateReturn)
    \/ GenCallNotas
    \/ (InNotas /\ ParseNotesEmpty)
    \/ (InNotas /\ ParseNotesSplit)
    \/ (InNotas /\ ParseNotesNoColon)
    \/ (InNotas /\ ParseNotesSet)
    \/ (InNotas /\ ParseNotesBadKey)
    \/ (InNotas /\ ParseNotesReturn)
    \/ GenCallGenerar
    \/ GenerarReturns
    \/ GenerarSaveRaises
    \/ GenSuccess
    \/ GenGenerarRaised

SpecGenerate == InitGenerate /\ [][NextGenerate]_vars

\* a main field that is empty once its blanks are trimmed away
EmptyAfterTrim(t) == NonBlank(t, 1, Len(t)) = {}

SomeFieldMissing ==
    \E t \in {ui.main.nombre, ui.main.oficina, ui.main.empleado, ui.main.out_path} :
        EmptyAfterTrim(t)

\* one of the two time fields is not a pair of valid times
TimePairInvalid ==
    ~AcceptedTrimmed(ui.opt.hora_m) \/ ~AcceptedTrimmed(ui.opt.hora_t)

\* the weekday-set field holds an entry that is not an integer
WeekdaySetInvalid == ExtrasRaises(ui.opt.extras)

Called(f) == \E i \in 1..Len(calls) : calls[i] = f

\* a parser called by generate is in the middle of its run
ParserRunning == ppc \in {"start", "loop"}

\* the steps of generate itself and of the generator it calls
GenerateStep ==
    \/ GenWarning \/ GenCallHoraM \/ GenCallHoraT \/ GenHoraTReturned
    \/ GenHoraRaised \/ GenExtrasRaised \/ GenCallFeriados \/ GenCallNotas
    \/ GenCallGenerar \/ GenerarReturns \/ GenerarSaveRaises
    \/ GenSuccess \/ GenGenerarRaised

\* C11: every run of generate ends with exactly one dialog, and before that
\* generate always has a step to take once the parser it called has returned
\* or raised; if a main field is empty after trimming the
\* dialog is the warning and no parser and no generator is ever called; the
\* success confirmation is shown only after generar_planilla_word has been
\* called and has returned, the file written; if a time pair or the weekday
\* set is invalid the dialog is the error, never the confirmation, and the
\* generator is never called; if the generator raises the dialog is the error;
\* the error is shown for no other reason; and when _parse_horas has raised
\* the generator has not been called.
T_C11 ==
    /\ Len(dialogs) <= 1
    /\ (gpc = "end") <=> (Len(dialogs) = 1)
    /\ gpc = "end" \/ ParserRunning \/ ENABLED GenerateStep
    /\ SomeFieldMissing =>
         /\ calls = <<>>
         /\ gpc = "end" => dialogs = <<"warning">>
    /\ dialogs = <<"warning">> => SomeFieldMissing
    /\ dialogs = <<"information">> =>
         /\ Called("generar_planilla_word")
         /\ pc = "returned"
         /\ file = "written"
    /\ (~SomeFieldMissing /\ (TimePairInvalid \/ WeekdaySetInvalid)) =>
         /\ ~Called("generar_planilla_word")
         /\ file = "absent"
         /\ gpc = "end" => dialogs = <<"critical">>
    /\ (pc = "raised" /\ gpc = "end") => dialogs = <<"critical">>
    /\ dialogs = <<"critical">> =>
         TimePairInvalid \/ WeekdaySetInvalid \/ pc = "raised"
    /\ ppc = "raised" =>
         /\ InHoras \/ gpc = "end"
         /\ pc = "idle"
         /\ ~Called("generar_planilla_word")

W_C11 ==
    /\ gpc = "end"
    /\ dialogs = <<"information">>
    /\ calls = <<"_parse_horas", "_parse_horas", "parse_date_list",
                 "parse_notes", "generar_planilla_word">>
    /\ file = "written"
    /\ feriados # {}
    /\ notas_por_dia # <<>>

====
